---- MODULE Spec2Model ----
(***************************************************************************)
(* TestGraphs/MakeConfigs/Moisture.py: the script that turns               *)
(* FieldConfigs.xlsx into FieldConfigs.csv (transposed) and                *)
(* FieldConfigs.pkl (snapshot).                                            *)
(*                                                                         *)
(* Text (paths, headers, cell text, CSV lines) is a sequence of            *)
(* one-character strings, so that split, substring tests, concatenation    *)
(* and formatting are computed character by character.                     *)
(***************************************************************************)
EXTENDS Integers, Sequences, FiniteSets

\* ------------------------------------------------------------------ bounds
\* Sheets with 0..SmallRows data rows are enumerated over every header layout.
SmallRows == 2
\* Big sheets have NRows - 1 .. NRows + ExtraRows data rows.
ExtraRows == 2
\* Number of executions of the script in one behaviour.
MaxRuns == 2

\* --------------------------------------------------------- program constants
\* nrows=45
NRows == 45

\* ------------------------------------------------------------------- text
Last(s) == s[Len(s)]

RECURSIVE Flatten(_)
Flatten(ss) == IF ss = <<>> THEN <<>> ELSE Head(ss) \o Flatten(Tail(ss))

\* Python's `needle in s` for strings: some window of s equals needle.
Contains(s, needle) ==
    \E k \in 0..(Len(s) - Len(needle)) : SubSeq(s, k + 1, k + Len(needle)) = needle

\* Python's s.split(sep) for a one-character sep: the maximal runs between
\* separators, empty runs included; always at least one segment.
RECURSIVE SplitFrom(_, _, _, _)
SplitFrom(s, sep, k, cur) ==
    IF k > Len(s) THEN <<cur>>
    ELSE IF s[k] = sep THEN <<cur>> \o SplitFrom(s, sep, k + 1, <<>>)
    ELSE SplitFrom(s, sep, k + 1, Append(cur, s[k]))

Split(s, sep) == SplitFrom(s, sep, 1, <<>>)

\* ------------------------------------------------------------------ paths
Backslash == "\\"
Slash == "/"

\* os.sep and the characters os.path.join accepts as an existing separator.
Sep(plat) == IF plat = "nt" THEN Backslash ELSE Slash
Seps(plat) == IF plat = "nt" THEN {Backslash, Slash} ELSE {Slash}

\* os.path.join(a, b) for a relative b: b is appended, with os.sep between
\* unless a is empty or already ends with a separator.
Join2(plat, a, b) ==
    IF a = <<>> THEN b
    ELSE IF Last(a) \in Seps(plat) THEN a \o b
    ELSE a \o <<Sep(plat)>> \o b

RECURSIVE JoinAll(_, _, _)
JoinAll(plat, a, parts) ==
    IF parts = <<>> THEN a ELSE JoinAll(plat, Join2(plat, a, Head(parts)), Tail(parts))

\* os.path.abspath(name) for a bare file name: the working directory joined
\* with the name (the working directory is already normalised).
AbsPath(plat, dir, name) == Join2(plat, dir, name)

\* The literals of the script.
NotebookName == <<"W", "S", "2", ".", "i", "p", "y", "n", "b">>
FieldNBalance == <<"F", "i", "e", "l", "d", "N", "B", "a", "l", "a", "n", "c", "e">>
TestComponents == <<"T", "e", "s", "t", "C", "o", "m", "p", "o", "n", "e", "n", "t", "s">>
TestSets == <<"T", "e", "s", "t", "S", "e", "t", "s">>
Moisture == <<"M", "o", "i", "s", "t", "u", "r", "e">>
Outputs == <<"O", "u", "t", "p", "u", "t", "s">>
TestGraphs == <<"T", "e", "s", "t", "G", "r", "a", "p", "h", "s">>
XlsxName == <<"F", "i", "e", "l", "d", "C", "o", "n", "f", "i", "g", "s", ".", "x", "l", "s", "x">>
CsvName == <<"F", "i", "e", "l", "d", "C", "o", "n", "f", "i", "g", "s", ".", "c", "s", "v">>
PklName == <<"F", "i", "e", "l", "d", "C", "o", "n", "f", "i", "g", "s", ".", "p", "k", "l">>
NameKey == <<"N", "a", "m", "e">>
Unnamed == <<"U", "n", "n", "a", "m", "e", "d">>

\* ------------------------------------------------------------------ cells
\* A value of a cell, a label or an axis name: an int, a str, NaN or None.
IntCell(k) == [t |-> "int", n |-> k, s |-> <<>>]
StrCell(x) == [t |-> "str", n |-> 0, s |-> x]
NaNCell == [t |-> "nan", n |-> 0, s |-> <<>>]
NoneCell == [t |-> "none", n |-> 0, s |-> <<>>]

Digits == <<"0", "1", "2", "3", "4", "5", "6", "7", "8", "9">>

\* str(k) for k >= 0.
RECURSIVE IntStr(_)
IntStr(k) == IF k < 10 THEN <<Digits[k + 1]>> ELSE IntStr(k \div 10) \o <<Digits[(k % 10) + 1]>>

\* The text to_csv writes for a value: str() of it, na_rep='' for NaN and
\* the empty string for a missing axis name.
CellText(c) ==
    CASE c.t = "int" -> IntStr(c.n)
      [] c.t = "str" -> c.s
      [] OTHER -> <<>>

\* ----------------------------------------------------------------- tables
\* A DataFrame: row labels, column labels, the two axis names, and the
\* cells row by row.
Frame(index, indexName, columns, columnsName, data) ==
    [index |-> index, indexName |-> indexName, columns |-> columns,
     columnsName |-> columnsName, data |-> data]

NoFrame == Frame(<<>>, NoneCell, <<>>, NoneCell, <<>>)

Min(a, b) == IF a <= b THEN a ELSE b

\* The positions from k on, in order, at which flags is true.
RECURSIVE Positions(_, _)
Positions(flags, k) ==
    IF k > Len(flags) THEN <<>>
    ELSE (IF flags[k] THEN <<k>> ELSE <<>>) \o Positions(flags, k + 1)

Pick(s, pos) == [k \in 1..Len(pos) |-> s[pos[k]]]

\* Fault: only a header that starts with 'Unnamed' is rejected.
usecolsPrefix(x) == ~(Len(x) >= Len(Unnamed) /\ SubSeq(x, 1, Len(Unnamed)) = Unnamed)
\* usecols=lambda x: 'Unnamed' not in x
usecols(x) == ~Contains(x, Unnamed)

\* keep_default_na=False: a blank cell stays ''; True would turn it to NaN.
NaFilter(keep_default_na, c) ==
    IF keep_default_na /\ c = StrCell(<<>>) THEN NaNCell ELSE c

\* Fault: nrows is ignored.
ReadExcelNoLimit(sh, nrows, keep_default_na) ==
    LET pos == Positions([j \in 1..Len(sh.headers) |-> usecols(sh.headers[j])], 1)
        n == Len(sh.rows)
    IN Frame([r \in 1..n |-> IntCell(r - 1)], NoneCell,
             [k \in 1..Len(pos) |-> StrCell(sh.headers[pos[k]])], NoneCell,
             [r \in 1..n |-> [k \in 1..Len(pos) |-> NaFilter(keep_default_na, sh.rows[r][pos[k]])]])
\* pd.read_excel(file, nrows=, usecols=, keep_default_na=): the header row
\* names the columns, the first nrows data rows are read, the columns usecols
\* rejects are dropped; the rows are labelled 0..n-1.
ReadExcel(sh, nrows, keep_default_na) ==
    LET pos == Positions([j \in 1..Len(sh.headers) |-> usecols(sh.headers[j])], 1)
        n == Min(nrows, Len(sh.rows))
    IN Frame([r \in 1..n |-> IntCell(r - 1)], NoneCell,
             [k \in 1..Len(pos) |-> StrCell(sh.headers[pos[k]])], NoneCell,
             [r \in 1..n |-> [k \in 1..Len(pos) |-> NaFilter(keep_default_na, sh.rows[r][pos[k]])]])

\* Whether set_index(key) finds its column.
HasColumn(df, key) == \E k \in 1..Len(df.columns) : df.columns[k] = StrCell(key)

\* df.set_index(key): the key column's values become the row labels, the
\* column leaves the data, and the index takes the key as its name.
SetIndex(df, key) ==
    LET kpos == CHOOSE k \in 1..Len(df.columns) : df.columns[k] = StrCell(key)
        rest == Positions([k \in 1..Len(df.columns) |-> k # kpos], 1)
    IN Frame([r \in 1..Len(df.index) |-> df.data[r][kpos]], StrCell(key),
             Pick(df.columns, rest), df.columnsName,
             [r \in 1..Len(df.index) |-> Pick(df.data[r], rest)])

\* Fault: the frame is returned as it is.
TransposeKeepAxes(df) ==
    Frame(df.index, df.indexName, df.columns, df.columnsName, df.data)
\* df.transpose(): a new frame with the axes (labels and names) swapped.
Transpose(df) ==
    Frame(df.columns, df.columnsName, df.index, df.indexName,
          [c \in 1..Len(df.columns) |-> [r \in 1..Len(df.index) |-> df.data[r][c]]])

\* -------------------------------------------------------------------- CSV
Comma == ","
Quote == "\""
Newline == "\n"

\* csv.QUOTE_MINIMAL: a field is quoted when it holds the delimiter, the quote
\* character or a line break; quotes inside are doubled.
NeedsQuote(f) == \E k \in 1..Len(f) : f[k] \in {Comma, Quote, Newline, "\r"}

CsvField(f) ==
    IF NeedsQuote(f)
    THEN <<Quote>> \o Flatten([k \in 1..Len(f) |-> IF f[k] = Quote THEN <<Quote, Quote>> ELSE <<f[k]>>])
         \o <<Quote>>
    ELSE f

\* One record: the fields separated by commas; a record of one empty field is
\* written as "" so that it is not an empty line.
CsvLine(fields) ==
    IF fields = << <<>> >> THEN <<Quote, Quote>>
    ELSE Flatten([k \in 1..Len(fields) |->
                    (IF k > 1 THEN <<Comma>> ELSE <<>>) \o CsvField(fields[k])])

\* df.to_csv(file, header=True): the header record (the index name, then the
\* column labels), then one record per row (its label, then its cells).
CsvLines(df) ==
    << CsvLine(<<CellText(df.indexName)>> \o [c \in 1..Len(df.columns) |-> CellText(df.columns[c])]) >>
    \o [r \in 1..Len(df.index) |->
          CsvLine(<<CellText(df.index[r])>> \o [c \in 1..Len(df.columns) |-> CellText(df.data[r][c])])]

\* ----------------------------------------------------------------- pickle
\* to_pickle / read_pickle: the frame is written as a flat stream of values
\* (shape, axis names, labels, then the cells row by row) and rebuilt from it.
Pickle(df) ==
    <<IntCell(Len(df.index)), IntCell(Len(df.columns)), df.indexName, df.columnsName>>
    \o df.index \o df.columns \o Flatten(df.data)

Unpickle(p) ==
    LET n == p[1].n
        m == p[2].n
    IN Frame(SubSeq(p, 5, 4 + n), p[3], SubSeq(p, 5 + n, 4 + n + m), p[4],
             [r \in 1..n |-> SubSeq(p, 5 + n + m + (r - 1) * m, 4 + n + m + r * m)])

\* ------------------------------------------------------------ environment
\* os.getenv returns None or a str; environment values are always text.
EnvNone == [kind |-> "none", s |-> ""]
EnvStr(t) == [kind |-> "str", s |-> t]

\* Python's `v == True` for v None or str: never equal (bool compares equal
\* only to bool/int 1).
EqTrue(v) == v.kind = "bool"

\* GITHUB_ACTIONS / GITHUB_WORKSPACE as the process can see them: outside
\* GitHub Actions both unset; inside, "true" and the checkout directory.
Environments ==
    { [actions |-> EnvNone, workspace |-> <<>>],
      [actions |-> EnvStr("true"), workspace |-> <<"/", "w", "s">>] }

\* The fixed segments below the project directory.
DataTail == <<TestComponents, TestSets, Moisture>>

\* Working directories the notebook is run from, with the directory that
\* really holds FieldConfigs.xlsx on that machine.
Worlds ==
    { \* Windows, inside the checkout
      [plat |-> "nt", cwd |-> <<"C", ":", "\\", "w", "\\", "F", "i", "e", "l", "d", "N", "B", "a", "l", "a", "n", "c", "e", "\\", "T", "e", "s", "t", "G", "r", "a", "p", "h", "s">>,
       dataDir |-> <<"C", ":", "\\", "w", "\\", "F", "i", "e", "l", "d", "N", "B", "a", "l", "a", "n", "c", "e", "\\", "T", "e", "s", "t", "C", "o", "m", "p", "o", "n", "e", "n", "t", "s", "\\", "T", "e", "s", "t", "S", "e", "t", "s", "\\", "M", "o", "i", "s", "t", "u", "r", "e">>],
      \* Windows, outside any checkout
      [plat |-> "nt", cwd |-> <<"C", ":", "\\", "w">>,
       dataDir |-> <<"C", ":", "\\", "w", "\\", "F", "i", "e", "l", "d", "N", "B", "a", "l", "a", "n", "c", "e", "\\", "T", "e", "s", "t", "C", "o", "m", "p", "o", "n", "e", "n", "t", "s", "\\", "T", "e", "s", "t", "S", "e", "t", "s", "\\", "M", "o", "i", "s", "t", "u", "r", "e">>],
      \* Windows, a checkout nested in a directory of the same name
      [plat |-> "nt", cwd |-> <<"C", ":", "\\", "F", "i", "e", "l", "d", "N", "B", "a", "l", "a", "n", "c", "e", "\\", "a", "\\", "F", "i", "e", "l", "d", "N", "B", "a", "l", "a", "n", "c", "e", "\\", "b">>,
       dataDir |-> <<"C", ":", "\\", "F", "i", "e", "l", "d", "N", "B", "a", "l", "a", "n", "c", "e", "\\", "a", "\\", "F", "i", "e", "l", "d", "N", "B", "a", "l", "a", "n", "c", "e", "\\", "T", "e", "s", "t", "C", "o", "m", "p", "o", "n", "e", "n", "t", "s", "\\", "T", "e", "s", "t", "S", "e", "t", "s", "\\", "M", "o", "i", "s", "t", "u", "r", "e">>],
      [plat |-> "nt", cwd |-> <<"C", ":", "\\", "F", "i", "e", "l", "d", "N", "B", "a", "l", "a", "n", "c", "e", "\\", "a", "\\", "F", "i", "e", "l", "d", "N", "B", "a", "l", "a", "n", "c", "e", "\\", "b">>,
       dataDir |-> <<"C", ":", "\\", "F", "i", "e", "l", "d", "N", "B", "a", "l", "a", "n", "c", "e", "\\", "T", "e", "s", "t", "C", "o", "m", "p", "o", "n", "e", "n", "t", "s", "\\", "T", "e", "s", "t", "S", "e", "t", "s", "\\", "M", "o", "i", "s", "t", "u", "r", "e">>],
      \* Windows, only a near miss of the project name
      [plat |-> "nt", cwd |-> <<"C", ":", "\\", "F", "i", "e", "l", "d", "N", "B", "a", "l", "a", "n", "c", "e", "2", "\\", "x">>,
       dataDir |-> <<"C", ":", "\\", "F", "i", "e", "l", "d", "N", "B", "a", "l", "a", "n", "c", "e", "2", "\\", "T", "e", "s", "t", "C", "o", "m", "p", "o", "n", "e", "n", "t", "s", "\\", "T", "e", "s", "t", "S", "e", "t", "s", "\\", "M", "o", "i", "s", "t", "u", "r", "e">>],
      \* POSIX: the absolute path holds no backslash
      [plat |-> "posix", cwd |-> <<"/", "w", "/", "F", "i", "e", "l", "d", "N", "B", "a", "l", "a", "n", "c", "e", "/", "T", "e", "s", "t", "G", "r", "a", "p", "h", "s">>,
       dataDir |-> <<"/", "w", "/", "F", "i", "e", "l", "d", "N", "B", "a", "l", "a", "n", "c", "e", "/", "T", "e", "s", "t", "C", "o", "m", "p", "o", "n", "e", "n", "t", "s", "/", "T", "e", "s", "t", "S", "e", "t", "s", "/", "M", "o", "i", "s", "t", "u", "r", "e">>],
      \* POSIX, directory names that contain backslashes
      [plat |-> "posix", cwd |-> <<"/", "a", "\\", "F", "i", "e", "l", "d", "N", "B", "a", "l", "a", "n", "c", "e", "\\", "b">>,
       dataDir |-> <<"/", "a", "\\", "/", "F", "i", "e", "l", "d", "N", "B", "a", "l", "a", "n", "c", "e", "/", "T", "e", "s", "t", "C", "o", "m", "p", "o", "n", "e", "n", "t", "s", "/", "T", "e", "s", "t", "S", "e", "t", "s", "/", "M", "o", "i", "s", "t", "u", "r", "e">>],
      \* POSIX, the data sits where the fallback path points
      [plat |-> "posix", cwd |-> <<"/", "w">>,
       dataDir |-> <<"/", "w", "/", "W", "S", "2", ".", "i", "p", "y", "n", "b", "\\", "/", "F", "i", "e", "l", "d", "N", "B", "a", "l", "a", "n", "c", "e", "/", "T", "e", "s", "t", "C", "o", "m", "p", "o", "n", "e", "n", "t", "s", "/", "T", "e", "s", "t", "S", "e", "t", "s", "/", "M", "o", "i", "s", "t", "u", "r", "e">>] }

\* ----------------------------------------------------------- spreadsheets
Depth == <<"D", "e", "p", "t", "h">>
Crop == <<"C", "r", "o", "p">>
UnnamedExtra == <<"U", "n", "n", "a", "m", "e", "d", "E", "x", "t", "r", "a">>
UnnamedColon2 == <<"U", "n", "n", "a", "m", "e", "d", ":", " ", "2">>
LowerUnnamed == <<"u", "n", "n", "a", "m", "e", "d">>
XUnnamed == <<"X", "U", "n", "n", "a", "m", "e", "d">>

\* Header rows: with and without "Name", "Name" first or not, and headers
\* that hold "Unnamed" at the start, inside, or only in another case.
Layouts ==
    { <<NameKey, Depth>>,
      <<Depth, NameKey, UnnamedExtra>>,
      <<NameKey, UnnamedColon2, Crop>>,
      <<Depth, Crop>>,
      <<NameKey>>,
      <<LowerUnnamed, NameKey, XUnnamed>> }

BigLayouts == { <<Depth, NameKey, UnnamedExtra>>, <<NameKey, Crop, Depth>> }

Letters == <<"A", "B", "C", "D", "E", "F">>

\* The "Name" cell of data row r: distinct letters, one repeated letter, or
\* distinct numbers.
NameCell(mode, r) ==
    CASE mode = "letters" -> StrCell(<<Letters[r]>>)
      [] mode = "same" -> StrCell(<<"A">>)
      [] OTHER -> IntCell(r)

\* The other cells: numbers, blanks, text with a comma, text with a quote.
ValueCell(r, j) ==
    CASE (r + j) % 4 = 3 -> IntCell(9 + r)
      [] (r + j) % 4 = 0 -> StrCell(<<>>)
      [] (r + j) % 4 = 1 -> StrCell(<<"a", ",", "b">>)
      [] OTHER -> StrCell(<<"x", "\"", "y">>)

MakeSheet(headers, mode, n) ==
    [headers |-> headers,
     rows |-> [r \in 1..n |-> [j \in 1..Len(headers) |->
                 IF headers[j] = NameKey THEN NameCell(mode, r) ELSE ValueCell(r, j)]]]

Sheets ==
    { MakeSheet(h, m, n) : h \in Layouts, m \in {"letters", "same"}, n \in 0..SmallRows }
    \cup { MakeSheet(h, "ints", n) : h \in BigLayouts, n \in (NRows - 1)..(NRows + ExtraRows) }

\* ------------------------------------------------------------------ files
Absent == [exists |-> FALSE, data |-> <<>>]
File(data) == [exists |-> TRUE, data |-> data]

\* Outputs left in the data directory by some earlier conversion.
StaleCsv == File(<< <<",", "Z">>, <<"D", "e", "p", "t", "h", ",", "1">> >>)
StalePkl ==
    File(Pickle(Frame(<<StrCell(<<"Z">>)>>, StrCell(NameKey), <<StrCell(Depth)>>, NoneCell,
                      << <<IntCell(1)>> >>)))

VARIABLES
    world,      \* platform, working directory, directory holding the spreadsheet
    environ,    \* GITHUB_ACTIONS, GITHUB_WORKSPACE
    sheet,      \* the content of FieldConfigs.xlsx
    csvFile,    \* FieldConfigs.csv in the data directory
    pklFile,    \* FieldConfigs.pkl in the data directory
    pc,         \* the statement the script is at (where it stopped, once err is set)
    err,        \* the unhandled exception that ended the run, or "none"
    branch,     \* which arm of the GITHUB_ACTIONS test ran
    root, inPath, outPath, path, rootfrags,
    i,          \* position of the for loop in rootfrags
    Configs, CSConfigs,
    runs,       \* executions started so far
    prev,       \* how the previous execution ended
    csv0, pkl0  \* the two output files as the current execution found them

vars == <<world, environ, sheet, csvFile, pklFile, pc, err, branch, root, inPath, outPath,
          path, rootfrags, i, Configs, CSConfigs, runs, prev, csv0, pkl0>>

inputs == <<world, environ, sheet>>
history == <<runs, prev, csv0, pkl0>>
files == <<csvFile, pklFile>>

Undefined == [def |-> FALSE, s |-> <<>>]
Defined(t) == [def |-> TRUE, s |-> t]

Init ==
    /\ world \in Worlds
    /\ environ \in Environments
    /\ sheet \in Sheets
    /\ \E old \in {<<Absent, Absent>>, <<StaleCsv, StalePkl>>} :
          /\ csvFile = old[1]
          /\ pklFile = old[2]
          /\ csv0 = old[1]
          /\ pkl0 = old[2]
    /\ pc = "env"
    /\ err = "none"
    /\ branch = "none"
    /\ root = Undefined
    /\ inPath = Undefined
    /\ outPath = Undefined
    /\ path = Undefined
    /\ rootfrags = <<>>
    /\ i = 0
    /\ Configs = NoFrame
    /\ CSConfigs = NoFrame
    /\ runs = 1
    /\ prev = "none"

\* Lines 19-25: the GITHUB_ACTIONS test and the start of either branch.
Resolve ==
    /\ err = "none"
    /\ pc = "env"
    /\ IF EqTrue(environ.actions)
       THEN /\ branch' = "ci"
            /\ root' = Defined(environ.workspace)
            /\ inPath' = Defined(JoinAll(world.plat, environ.workspace,
                                         <<TestComponents, TestSets, Moisture, Outputs>>))
            /\ outPath' = Defined(JoinAll(world.plat, environ.workspace,
                                          <<TestGraphs, Outputs>>))
            /\ pc' = "load"
            /\ UNCHANGED <<rootfrags, i>>
       ELSE /\ branch' = "local"
            /\ rootfrags' = Split(AbsPath(world.plat, world.cwd, NotebookName), Backslash)
            /\ root' = Defined(<<>>)
            /\ i' = 1
            /\ pc' = "loop"
            /\ UNCHANGED <<inPath, outPath>>
    /\ UNCHANGED <<inputs, files, history, err, path, Configs, CSConfigs>>

\* Fault: the project name is looked for inside the segment.
IsProjectDirLoose(d) == Contains(d, FieldNBalance)
\* Line 27: `if d == "FieldNBalance"`.
IsProjectDir(d) == d = FieldNBalance

\* Fault: the backslash is not put back.
AccumulateNoSep(r, d) == r \o d
\* Line 30: `root += d + "\\"`.
Accumulate(r, d) == r \o d \o <<Backslash>>

\* Lines 26-30: one iteration of `for d in rootfrags`.
LoopStep ==
    /\ err = "none"
    /\ pc = "loop"
    /\ LET d == rootfrags[i] IN
       IF IsProjectDir(d)
       THEN /\ pc' = "join"
            /\ UNCHANGED <<root, i>>
       ELSE /\ root' = Defined(Accumulate(root.s, d))
            /\ i' = i + 1
            /\ pc' = IF i + 1 > Len(rootfrags) THEN "join" ELSE "loop"
    /\ UNCHANGED <<inputs, files, history, err, branch, inPath, outPath, path, rootfrags,
                   Configs, CSConfigs>>

\* Line 31.
JoinPath ==
    /\ err = "none"
    /\ pc = "join"
    /\ path' = Defined(JoinAll(world.plat, root.s, <<FieldNBalance>> \o DataTail))
    /\ pc' = "load"
    /\ UNCHANGED <<inputs, files, history, err, branch, root, inPath, outPath, rootfrags, i,
                   Configs, CSConfigs>>

\* Whether the file `name` of directory `dir` is the spreadsheet on disk.
XlsxAt(dir, name) ==
    Join2(world.plat, dir, name) = Join2(world.plat, world.dataDir, XlsxName)

\* Fault: both outputs are opened for writing before the spreadsheet is read.
LoadAfterOpeningOutputs ==
    /\ err = "none"
    /\ pc = "load"
    /\ csvFile' = File(<<>>)
    /\ pklFile' = File(<<>>)
    /\ IF ~path.def
       THEN /\ err' = "NameError" /\ UNCHANGED <<pc, Configs>>
       ELSE IF ~XlsxAt(path.s, XlsxName)
       THEN /\ err' = "FileNotFoundError" /\ UNCHANGED <<pc, Configs>>
       ELSE /\ Configs' = ReadExcel(sheet, NRows, FALSE)
            /\ pc' = "index"
            /\ UNCHANGED err
    /\ UNCHANGED <<inputs, history, branch, root, inPath, outPath, path, rootfrags, i,
                   CSConfigs>>

\* Lines 33-37: `path` is evaluated (NameError when the CI branch ran, which
\* never assigns it), the file is opened (FileNotFoundError) and read.
Load ==
    /\ err = "none"
    /\ pc = "load"
    /\ IF ~path.def
       THEN /\ err' = "NameError" /\ UNCHANGED <<pc, Configs>>
       ELSE IF ~XlsxAt(path.s, XlsxName)
       THEN /\ err' = "FileNotFoundError" /\ UNCHANGED <<pc, Configs>>
       ELSE /\ Configs' = ReadExcel(sheet, NRows, FALSE)
            /\ pc' = "index"
            /\ UNCHANGED err
    /\ UNCHANGED <<inputs, files, history, branch, root, inPath, outPath, path, rootfrags, i,
                   CSConfigs>>

\* Line 39: Configs.set_index('Name', inplace=True); KeyError without the column.
Index ==
    /\ err = "none"
    /\ pc = "index"
    /\ IF ~HasColumn(Configs, NameKey)
       THEN /\ err' = "KeyError" /\ UNCHANGED <<pc, Configs>>
       ELSE /\ Configs' = SetIndex(Configs, NameKey)
            /\ pc' = "transpose"
            /\ UNCHANGED err
    /\ UNCHANGED <<inputs, files, history, branch, root, inPath, outPath, path, rootfrags, i,
                   CSConfigs>>

\* Line 41: CSConfigs = Configs.transpose().
TransposeStep ==
    /\ err = "none"
    /\ pc = "transpose"
    /\ CSConfigs' = Transpose(Configs)
    /\ pc' = "csv"
    /\ UNCHANGED <<inputs, files, history, err, branch, root, inPath, outPath, path,
                   rootfrags, i, Configs>>

\* What a write call can do to its file: replace it, fail before opening it
\* (the file is left alone), or fail after opening it for writing (the file
\* is left truncated).
WriteOutcomes == {"ok", "denied", "interrupted"}

\* Fault: the file is opened for appending.
Appended(old, data) == File(old.data \o data)
\* open(file, "w") followed by a complete write.
Written(old, data) == File(data)

AfterWrite(outcome, old, data) ==
    CASE outcome = "ok" -> Written(old, data)
      [] outcome = "denied" -> old
      [] OTHER -> File(<<>>)

\* Line 42: CSConfigs.to_csv(os.path.join(path, "FieldConfigs.csv"), header=True).
\* Fault: a failed CSV write is swallowed and the script goes on.
WriteCsvSwallowingErrors ==
    /\ err = "none"
    /\ pc = "csv"
    /\ \E outcome \in WriteOutcomes :
          /\ csvFile' = AfterWrite(outcome, csvFile, CsvLines(CSConfigs))
          /\ pc' = "pickle"
          /\ err' = "none"
    /\ UNCHANGED <<inputs, pklFile, history, branch, root, inPath, outPath, path, rootfrags, i,
                   Configs, CSConfigs>>

WriteCsv ==
    /\ err = "none"
    /\ pc = "csv"
    /\ \E outcome \in WriteOutcomes :
          /\ csvFile' = AfterWrite(outcome, csvFile, CsvLines(CSConfigs))
          /\ pc' = IF outcome = "ok" THEN "pickle" ELSE pc
          /\ err' = IF outcome = "ok" THEN "none" ELSE "OSError"
    /\ UNCHANGED <<inputs, pklFile, history, branch, root, inPath, outPath, path, rootfrags, i,
                   Configs, CSConfigs>>

\* Fault: the transposed frame is pickled.
PickleSourceTransposed == CSConfigs
\* Line 44: Configs.to_pickle(os.path.join(path, "FieldConfigs.pkl")).
PickleSource == Configs
WritePkl ==
    /\ err = "none"
    /\ pc = "pickle"
    /\ \E outcome \in WriteOutcomes :
          /\ pklFile' = AfterWrite(outcome, pklFile, Pickle(PickleSource))
          /\ pc' = IF outcome = "ok" THEN "done" ELSE pc
          /\ err' = IF outcome = "ok" THEN "none" ELSE "OSError"
    /\ UNCHANGED <<inputs, csvFile, history, branch, root, inPath, outPath, path, rootfrags, i,
                   Configs, CSConfigs>>

\* The script is started again: a fresh process, the same machine and files.
Rerun ==
    /\ pc = "done" \/ err # "none"
    /\ runs < MaxRuns
    /\ runs' = runs + 1
    /\ prev' = IF err = "none" THEN "done" ELSE "failed"
    /\ csv0' = csvFile
    /\ pkl0' = pklFile
    /\ pc' = "env"
    /\ err' = "none"
    /\ branch' = "none"
    /\ root' = Undefined
    /\ inPath' = Undefined
    /\ outPath' = Undefined
    /\ path' = Undefined
    /\ rootfrags' = <<>>
    /\ i' = 0
    /\ Configs' = NoFrame
    /\ CSConfigs' = NoFrame
    /\ UNCHANGED <<inputs, files>>

Next ==
    \/ Resolve
    \/ LoopStep
    \/ JoinPath
    \/ Load
    \/ Index
    \/ TransposeStep
    \/ WriteCsv
    \/ WritePkl
    \/ Rerun

Spec == Init /\ [][Next]_vars

\* ------------------------------------------------------- reading the outputs
\* A reader of one CSV record: fields end at commas outside quotes, and a
\* doubled quote inside a quoted field is one quote.
EvenQuotes(line, a, b) == Cardinality({j \in a..b : line[j] = Quote}) % 2 = 0

\* Whether the quote at p closes the quoted field opened at k.
Closes(line, k, p) ==
    /\ line[p] = Quote
    /\ p = Len(line) \/ line[p + 1] # Quote
    /\ EvenQuotes(line, k + 1, p - 1)

\* The position just after the field that starts at k: its comma, or Len + 1.
FieldEnd(line, k) ==
    IF k <= Len(line) /\ line[k] = Quote
    THEN 1 + (CHOOSE p \in (k + 1)..Len(line) :
                 Closes(line, k, p) /\ \A q \in (k + 1)..(p - 1) : ~Closes(line, k, q))
    ELSE CHOOSE p \in k..(Len(line) + 1) :
            /\ p = Len(line) + 1 \/ line[p] = Comma
            /\ \A q \in k..(p - 1) : line[q] # Comma

RECURSIVE Undouble(_)
Undouble(f) ==
    IF f = <<>> THEN <<>>
    ELSE IF Head(f) = Quote THEN <<Quote>> \o Undouble(Tail(Tail(f)))
    ELSE <<Head(f)>> \o Undouble(Tail(f))

RECURSIVE ParseCsvFrom(_, _)
ParseCsvFrom(line, k) ==
    LET e == FieldEnd(line, k)
        raw == SubSeq(line, k, e - 1)
        f == IF raw # <<>> /\ raw[1] = Quote THEN Undouble(SubSeq(raw, 2, Len(raw) - 1)) ELSE raw
    IN IF e > Len(line) THEN <<f>> ELSE <<f>> \o ParseCsvFrom(line, e + 1)

ParseCsvLine(line) == ParseCsvFrom(line, 1)

\* The CSV file on disk as records of fields, and the snapshot reloaded.
CsvRecords == [l \in 1..Len(csvFile.data) |-> ParseCsvLine(csvFile.data[l])]
Reloaded == Unpickle(pklFile.data)

\* --------------------------------------------- the spreadsheet, read directly
\* What the claims say about the input, stated on the sheet itself.
HasUnnamed(h) == \E k \in 1..Len(h) : \E m \in k..Len(h) : SubSeq(h, k, m) = Unnamed
KeptCols == SelectSeq([j \in 1..Len(sheet.headers) |-> j],
                      LAMBDA j : ~HasUnnamed(sheet.headers[j]))
DataCols == SelectSeq(KeptCols, LAMBDA j : sheet.headers[j] # NameKey)
HasName == \E k \in 1..Len(KeptCols) : sheet.headers[KeptCols[k]] = NameKey
NameCol == CHOOSE j \in 1..Len(sheet.headers) : sheet.headers[j] = NameKey
NumRows == Len(sheet.rows)
NumLoaded == IF NumRows <= NRows THEN NumRows ELSE NRows
NameAt(r) == sheet.rows[r][NameCol]
UniqueNames == \A r1, r2 \in 1..NumRows : NameAt(r1) = NameAt(r2) => r1 = r2
HasBlank == \E r \in 1..NumLoaded : \E k \in 1..Len(DataCols) :
               sheet.rows[r][DataCols[k]] = StrCell(<<>>)

\* The indexed-by-Name table the sheet describes.
ExpectedConfigs ==
    Frame([r \in 1..NumLoaded |-> NameAt(r)], StrCell(NameKey),
          [k \in 1..Len(DataCols) |-> StrCell(sheet.headers[DataCols[k]])], NoneCell,
          [r \in 1..NumLoaded |-> [k \in 1..Len(DataCols) |-> sheet.rows[r][DataCols[k]]]])

Running == err = "none"
CsvDone == Running /\ pc \in {"pickle", "done"}
Finished == Running /\ pc = "done"

\* The backslash-split absolute path of the notebook, and its first segment
\* equal to the project name (0 when there is none).
Segments == Split(AbsPath(world.plat, world.cwd, NotebookName), Backslash)
MatchesOf(segs) == {k \in 1..Len(segs) : segs[k] = FieldNBalance}
FirstOf(m) == IF m = {} THEN 0 ELSE CHOOSE k \in m : \A j \in m : k <= j
PathResolved == pc \notin {"env", "loop", "join"}
\* Text values of GITHUB_ACTIONS that mean "yes".
TrueLike == {"true", "True", "1"}
TrueLikeIndicator == environ.actions.kind = "str" /\ environ.actions.s \in TrueLike

\* ---------------------------------------------------------------- claims

\* C1: for a sheet of N <= 45 rows with unique "Name" values, the table
\* written to FieldConfigs.csv has one record per loaded column other than
\* "Name" (after the header record), one column per "Name" value (after the
\* label column), and the cell at (row = column c, column = name n) is the
\* loaded cell at (row n, column c), as a value in the transposed table and as
\* text in the file.
C1_TransposedCsv ==
    (CsvDone /\ NumRows <= NRows /\ UniqueNames) =>
        LET recs == CsvRecords IN
        /\ Len(CSConfigs.index) = Len(DataCols)
        /\ Len(CSConfigs.columns) = NumRows
        /\ \A k \in 1..Len(DataCols) : \A r \in 1..NumRows :
              /\ CSConfigs.index[k] = StrCell(sheet.headers[DataCols[k]])
              /\ CSConfigs.columns[r] = NameAt(r)
              /\ CSConfigs.data[k][r] = sheet.rows[r][DataCols[k]]
        /\ csvFile.exists
        /\ Len(recs) = 1 + Len(DataCols)
        /\ \A l \in 1..Len(recs) : Len(recs[l]) = 1 + NumRows
        /\ \A r \in 1..NumRows : recs[1][r + 1] = CellText(NameAt(r))
        /\ \A k \in 1..Len(DataCols) :
              /\ recs[k + 1][1] = sheet.headers[DataCols[k]]
              /\ \A r \in 1..NumRows :
                    recs[k + 1][r + 1] = CellText(sheet.rows[r][DataCols[k]])

C1_Witness ==
    /\ Finished
    /\ sheet = MakeSheet(<<Depth, NameKey, UnnamedExtra>>, "letters", 2)

\* C2: with GITHUB_ACTIONS set to a true-like value the run takes the CI
\* branch: the input directory is <workspace>/TestComponents/TestSets/
\* Moisture/Outputs, the output directory <workspace>/TestGraphs/Outputs.
C2_CiBranchTaken ==
    (TrueLikeIndicator /\ pc # "env") =>
        /\ branch = "ci"
        /\ inPath = Defined(environ.workspace \o <<"/", "T", "e", "s", "t", "C", "o", "m", "p", "o", "n", "e", "n", "t", "s", "/", "T", "e", "s", "t", "S", "e", "t", "s", "/", "M", "o", "i", "s", "t", "u", "r", "e", "/", "O", "u", "t", "p", "u", "t", "s">>)
        /\ outPath = Defined(environ.workspace \o <<"/", "T", "e", "s", "t", "G", "r", "a", "p", "h", "s", "/", "O", "u", "t", "p", "u", "t", "s">>)

\* C3: in the local branch, when a segment of the split absolute path equals
\* "FieldNBalance", the root is every segment before the first such segment,
\* each followed by a backslash (so a prefix of the absolute path), the walk
\* stops at that segment, and the directory is the root joined with
\* FieldNBalance, TestComponents, TestSets, Moisture.
C3_RootBeforeFirstMatch ==
    (branch = "local" /\ PathResolved) =>
        LET segs == Segments
            first == FirstOf(MatchesOf(segs))
        IN first # 0 =>
           /\ root.s = Flatten([k \in 1..(first - 1) |-> segs[k] \o <<Backslash>>])
           /\ root.s = SubSeq(AbsPath(world.plat, world.cwd, NotebookName), 1, Len(root.s))
           /\ i = first
           /\ path.def
           /\ path.s = IF world.plat = "nt"
                       THEN root.s \o <<"F", "i", "e", "l", "d", "N", "B", "a", "l", "a", "n", "c", "e", "\\", "T", "e", "s", "t", "C", "o", "m", "p", "o", "n", "e", "n", "t", "s", "\\", "T", "e", "s", "t", "S", "e", "t", "s", "\\", "M", "o", "i", "s", "t", "u", "r", "e">>
                       ELSE root.s \o <<"/", "F", "i", "e", "l", "d", "N", "B", "a", "l", "a", "n", "c", "e", "/", "T", "e", "s", "t", "C", "o", "m", "p", "o", "n", "e", "n", "t", "s", "/", "T", "e", "s", "t", "S", "e", "t", "s", "/", "M", "o", "i", "s", "t", "u", "r", "e">>

C3_Witness ==
    /\ branch = "local"
    /\ pc = "load"
    /\ LET m == MatchesOf(Segments) IN Cardinality(m) = 2 /\ FirstOf(m) = 2 /\ i = 2

\* C4: in the local branch, when no segment equals "FieldNBalance", no error
\* is raised by path resolution: every segment is visited, the root is all
\* the segments, the file name included, each followed by a backslash, and the
\* run reaches the load step with the directory built on that root.
C4_SilentFallback ==
    branch = "local" =>
        LET segs == Segments IN
        MatchesOf(segs) = {} =>
           /\ pc \in {"loop", "join"} => err = "none"
           /\ pc = "loop" => i <= Len(segs)
           /\ pc # "loop" =>
                 /\ i = Len(segs) + 1
                 /\ root.s = Flatten([k \in 1..Len(segs) |-> segs[k] \o <<Backslash>>])
                 /\ Len(root.s) >= Len(NotebookName) + 1
                 /\ SubSeq(root.s, Len(root.s) - Len(NotebookName), Len(root.s))
                       = NotebookName \o <<Backslash>>
           /\ PathResolved =>
                 /\ path.def
                 /\ path.s = JoinAll(world.plat, root.s, <<FieldNBalance>> \o DataTail)
                 /\ err \notin {"NameError", "ValueError", "LookupError"}

C4_Witness ==
    /\ branch = "local"
    /\ pc = "load"
    /\ err = "none"
    /\ world.plat = "nt"
    /\ LET segs == Segments IN MatchesOf(segs) = {} /\ Len(segs) = 3 /\ i = 4

\* C5: at most the first 45 data rows are loaded; a sheet of exactly 45 rows
\* loads fully, and a row at position 46 or later is no column of
\* FieldConfigs.csv and no row of FieldConfigs.pkl.
C5_RowLimit ==
    /\ (Running /\ pc = "index") => Len(Configs.index) = NumLoaded
    /\ (CsvDone /\ HasName) =>
          LET recs == CsvRecords IN
          /\ \A l \in 1..Len(recs) : Len(recs[l]) = 1 + NumLoaded
          /\ \A r \in 1..NumLoaded : recs[1][r + 1] = CellText(NameAt(r))
          /\ UniqueNames => \A r \in (NRows + 1)..NumRows : \A c \in 2..Len(recs[1]) :
                               recs[1][c] # CellText(NameAt(r))
    /\ (Finished /\ HasName) =>
          LET snap == Reloaded IN
          /\ snap.index = [r \in 1..NumLoaded |-> NameAt(r)]
          /\ Len(snap.data) = NumLoaded
          /\ UniqueNames => \A r \in (NRows + 1)..NumRows : \A x \in 1..Len(snap.index) :
                               snap.index[x] # NameAt(r)

C5_Witness ==
    /\ Finished
    /\ NumRows = NRows + 1

\* C6: a column whose header contains "Unnamed" is not in the loaded table,
\* is no record of FieldConfigs.csv and no column of FieldConfigs.pkl; every
\* other column is kept.
C6_UnnamedDropped ==
    /\ (Running /\ pc = "index") =>
          Configs.columns = [k \in 1..Len(KeptCols) |-> StrCell(sheet.headers[KeptCols[k]])]
    /\ CsvDone =>
          LET recs == CsvRecords IN
          [l \in 1..(Len(recs) - 1) |-> recs[l + 1][1]]
             = [k \in 1..Len(DataCols) |-> sheet.headers[DataCols[k]]]
    /\ Finished =>
          LET snap == Reloaded IN
          /\ snap.columns = [k \in 1..Len(DataCols) |-> StrCell(sheet.headers[DataCols[k]])]
          /\ \A k \in 1..Len(snap.columns) : ~HasUnnamed(snap.columns[k].s)

C6_Witness ==
    /\ Finished
    /\ \E j \in 1..Len(sheet.headers) : sheet.headers[j] = XUnnamed
    /\ NumRows >= 1

\* C7: FieldConfigs.pkl holds the indexed-by-Name table, not the transposed
\* one: the transpose and the CSV write leave Configs as set_index made it,
\* and the reloaded snapshot equals it (keys, column values, blanks as '').
C7_SnapshotIsIndexedTable ==
    /\ (Running /\ pc \in {"transpose", "csv", "pickle", "done"}) => Configs = ExpectedConfigs
    /\ Finished =>
          /\ pklFile.exists
          /\ Reloaded = Configs
          /\ Reloaded = ExpectedConfigs

C7_Witness ==
    /\ Finished
    /\ HasBlank
    /\ NumRows = 2
    /\ Len(DataCols) = 1
    /\ Reloaded # CSConfigs

\* C8: when the load fails (no spreadsheet at the path, or no "Name" column)
\* the run stops there and both output files are as the run found them.
C8_FailedLoadLeavesOutputs ==
    err \in {"FileNotFoundError", "KeyError"} =>
        /\ pc \in {"load", "index"}
        /\ csvFile = csv0
        /\ pklFile = pkl0
        /\ CSConfigs = NoFrame

C8_Witness ==
    /\ err = "KeyError"
    /\ csv0 = StaleCsv
    /\ pkl0 = StalePkl

\* C9: a second run after a successful one, on the same input and
\* environment, leaves FieldConfigs.csv identical and a FieldConfigs.pkl that
\* reloads to an equal table.
C9_RerunIdempotent ==
    (Finished /\ prev = "done") =>
        /\ csvFile = csv0
        /\ pklFile.exists /\ pkl0.exists
        /\ Reloaded = Unpickle(pkl0.data)

C9_Witness ==
    /\ Finished
    /\ prev = "done"
    /\ runs = 2
    /\ NumRows >= 1
    /\ Len(DataCols) >= 1

\* The order of the statements of one run.
StepOrder ==
    { <<"env", "loop">>, <<"env", "load">>, <<"loop", "join">>, <<"join", "load">>,
      <<"load", "index">>, <<"index", "transpose">>, <<"transpose", "csv">>,
      <<"csv", "pickle">>, <<"pickle", "done">> }

\* What is on disk at each statement.
C10_OrderState ==
    /\ pc \in {"env", "loop", "join", "load", "index", "transpose"} => csvFile = csv0
    /\ pc \in {"env", "loop", "join", "load", "index", "transpose", "csv"} => pklFile = pkl0
    /\ pc \in {"pickle", "done"} => csvFile = File(CsvLines(Transpose(ExpectedConfigs)))

\* What one step may change.
C10_OrderStep ==
    /\ (pc' # pc /\ runs' = runs) => <<pc, pc'>> \in StepOrder
    /\ pklFile' # pklFile => (pc = "pickle" /\ csvFile = File(CsvLines(CSConfigs)))
    /\ csvFile' # csvFile => pc = "csv"

\* C10: the statements run in the order path resolution, load, index,
\* transpose, CSV write, snapshot write. The snapshot file changes only in
\* the snapshot write, which runs only after this run's CSV is on disk: a run
\* stopped by its CSV write leaves FieldConfigs.pkl as it found it, and a run
\* stopped by its snapshot write has already replaced FieldConfigs.csv.
C10_WriteOrder == [][C10_OrderStep]_vars /\ []C10_OrderState

C10_Witness ==
    /\ pc = "pickle"
    /\ err = "OSError"
    /\ csv0 = StaleCsv
    /\ csvFile # csv0
    /\ pklFile = pkl0
====
